---- MODULE Spec2Model ----
(***************************************************************************)
(* Invoice Generator (src/app.py): the currency parser, the filename       *)
(* sanitizer, the PDF renderer's row loop and the two upload branches      *)
(* (vendor-only and purchase-order mode) as state machines.                *)
(*                                                                         *)
(* A Python str is a sequence of one-character strings; a character       *)
(* outside ASCII is written by its code point ("U+00E9").  A Python float  *)
(* is a record: a finite decimal m / 10^e, or nan.  Finite values are      *)
(* exact decimals; every amount drawn here has at most two decimals, for  *)
(* which the ",.2f" formatting of the binary float and of the decimal      *)
(* agree.                                                                  *)
(***************************************************************************)
EXTENDS Integers, Sequences, FiniteSets, TLC

VARIABLES
    value, amount, result, ccpc,        \* clean_currency and the amount formatting
    text, clean, sfpc,                  \* sanitize_filename
    \* generate_pdf_bytes: its caller and arguments, its locals, the canvas
    caller, company_name, po_number, items_df,
    index, y_position, page, item_counter, total_amount, canvas, rpc,
    \* the script body below "uploaded_file is not None"
    no_po_mode, uploaded_file, df_columns, df, pc,
    unique_vendors, grouped, loop_i, zip_file, count, calls, ui

ccvars == <<value, amount, result, ccpc>>
sfvars == <<text, clean, sfpc>>
rargs == <<caller, company_name, po_number, items_df>>
rvars == <<caller, company_name, po_number, items_df,
           index, y_position, page, item_counter, total_amount, canvas, rpc>>
uvars == <<no_po_mode, uploaded_file, df_columns, df, pc,
           unique_vendors, grouped, loop_i, zip_file, count, calls, ui>>
vars == <<value, amount, result, ccpc, text, clean, sfpc,
          caller, company_name, po_number, items_df,
          index, y_position, page, item_counter, total_amount, canvas, rpc,
          no_po_mode, uploaded_file, df_columns, df, pc,
          unique_vendors, grouped, loop_i, zip_file, count, calls, ui>>

(***************************************************************************)
(* Bounds                                                                  *)
(***************************************************************************)
MaxLen == 4
MaxDollars == 12
MaxNameLen == 4
MaxItems == 3
MaxLines == 65
MaxRows == 2
MaxHeaderRows == 1

(***************************************************************************)
(* Floats                                                                  *)
(***************************************************************************)
RECURSIVE Pow10(_)
Pow10(n) == IF n = 0 THEN 1 ELSE 10 * Pow10(n - 1)

RECURSIVE Norm(_, _)
Norm(m, e) == IF e > 0 /\ m % 10 = 0 THEN Norm(m \div 10, e - 1)
              ELSE [k |-> "fin", m |-> m, e |-> e]

Fin(m, e) == Norm(m, e)
Zero == Fin(0, 0)
NaN == [k |-> "nan", m |-> 0, e |-> 0]
None == [k |-> "None", m |-> 0, e |-> 0]
\* float(s) raising ValueError, as a value of the same shape
ValueError == [k |-> "ValueError", m |-> 0, e |-> 0]

IsFloat(v) == v.k \in {"fin", "nan"}
IsFinite(v) == v.k = "fin"
Neg(v) == IF v.k = "fin" THEN Fin(0 - v.m, v.e) ELSE v
Abs(v) == IF v.k = "fin" /\ v.m < 0 THEN Fin(0 - v.m, v.e) ELSE v
\* v < 0: every comparison with nan is False
Lt0(v) == v.k = "fin" /\ v.m < 0
Max(a, b) == IF a >= b THEN a ELSE b
Add(a, b) == IF a.k = "nan" \/ b.k = "nan" THEN NaN
             ELSE LET e == Max(a.e, b.e)
                  IN Fin(a.m * Pow10(e - a.e) + b.m * Pow10(e - b.e), e)
\* a == b in Python: nan equals nothing, itself included
PyEq(a, b) == a.k = "fin" /\ b.k = "fin" /\ a = b

(***************************************************************************)
(* str methods                                                             *)
(***************************************************************************)
Digits == <<"0", "1", "2", "3", "4", "5", "6", "7", "8", "9">>
DigitChars == {Digits[i] : i \in 1..10}
DigitVal(c) == (CHOOSE i \in 1..10 : Digits[i] = c) - 1
IsSpace(c) == c \in {" ", "TAB"}

RECURSIVE lstrip(_)
lstrip(s) == IF s # <<>> /\ IsSpace(Head(s)) THEN lstrip(Tail(s)) ELSE s
RECURSIVE rstrip(_)
rstrip(s) == IF s # <<>> /\ IsSpace(s[Len(s)]) THEN rstrip(SubSeq(s, 1, Len(s) - 1)) ELSE s
strip(s) == rstrip(lstrip(s))
startswith(s, c) == Len(s) > 0 /\ s[1] = c
endswith(s, c) == Len(s) > 0 /\ s[Len(s)] = c
\* s[1:-1]
Inner(s) == SubSeq(s, 2, Len(s) - 1)
\* s.replace(c, '')
remove(s, c) == SelectSeq(s, LAMBDA x : x # c)

RECURSIVE DigitsToInt(_)
DigitsToInt(d) == IF d = <<>> THEN 0
                  ELSE 10 * DigitsToInt(SubSeq(d, 1, Len(d) - 1)) + DigitVal(d[Len(d)])
RECURSIVE IntToStr(_)
IntToStr(n) == IF n < 10 THEN <<Digits[n + 1]>>
               ELSE IntToStr(n \div 10) \o <<Digits[(n % 10) + 1]>>

(***************************************************************************)
(* float(s) on a str: surrounding whitespace, an optional sign, then       *)
(* "nan" or digits with at most one point and at least one digit.          *)
(* Anything else raises ValueError.  (Exponents, digit-group underscores   *)
(* and "inf" need characters no input here contains.)                     *)
(***************************************************************************)
float(s) ==
    LET t == strip(s)
        signed == t # <<>> /\ t[1] \in {"-", "+"}
        body == IF signed THEN Tail(t) ELSE t
        minus == signed /\ t[1] = "-"
        ds == SelectSeq(body, LAMBDA c : c \in DigitChars)
        points == SelectSeq(body, LAMBDA c : c = ".")
        pos == CHOOSE i \in 1..(Len(body) + 1) :
                  \/ (i <= Len(body) /\ body[i] = ".")
                  \/ (i = Len(body) + 1 /\ \A j \in 1..Len(body) : body[j] # ".")
        frac == IF points = <<>> THEN 0 ELSE Len(body) - pos
    IN  IF body = <<"n", "a", "n">> THEN NaN
        ELSE IF /\ ds # <<>>
                /\ Len(points) <= 1
                /\ Len(ds) + Len(points) = Len(body)
             THEN Fin((IF minus THEN -1 ELSE 1) * DigitsToInt(ds), frac)
             ELSE ValueError

(***************************************************************************)
(* Cells of a DataFrame: a str, or a float (a missing cell is float nan).  *)
(***************************************************************************)
StrCell(s) == [t |-> "str", s |-> s, v |-> Zero]
NumCell(v) == [t |-> "float", s |-> <<>>, v |-> v]
NanCell == NumCell(NaN)
isna(c) == c.t = "float" /\ c.v.k = "nan"
isinstance_str(c) == c.t = "str"

\* format(v, ",.2f")
RECURSIVE Group(_)
Group(d) == IF Len(d) <= 3 THEN d
            ELSE Group(SubSeq(d, 1, Len(d) - 3)) \o <<",">> \o SubSeq(d, Len(d) - 2, Len(d))
Format2(v) ==
    IF v.k = "nan" THEN <<"n", "a", "n">>
    ELSE LET cents == v.m * Pow10(2 - v.e)
             a == IF cents < 0 THEN 0 - cents ELSE cents
         IN (IF cents < 0 THEN <<"-">> ELSE <<>>)
            \o Group(IntToStr(a \div 100))
            \o <<".", Digits[((a % 100) \div 10) + 1], Digits[(a % 10) + 1]>>

\* str(value) of a cell: the text itself, or the float's repr
str(c) ==
    IF c.t = "str" THEN c.s
    ELSE IF c.v.k = "nan" THEN <<"n", "a", "n">>
    ELSE LET a == IF c.v.m < 0 THEN 0 - c.v.m ELSE c.v.m
             whole == a \div Pow10(c.v.e)
             part == a % Pow10(c.v.e)
             fr == IntToStr(part)
             pad == [i \in 1..(c.v.e - Len(fr)) |-> "0"]
         IN (IF c.v.m < 0 THEN <<"-">> ELSE <<>>) \o IntToStr(whole) \o <<".">>
            \o (IF c.v.e = 0 THEN <<"0">> ELSE pad \o fr)

(***************************************************************************)
(* clean_currency                                                          *)
(***************************************************************************)
\* the same without the except clause: the ValueError escapes
clean_currency_no_except(value_) ==
    IF isna(value_) THEN Zero
    ELSE LET s0 == strip(str(value_))
             quoted == \/ startswith(s0, "\"") /\ endswith(s0, "\"")
                       \/ startswith(s0, "'") /\ endswith(s0, "'")
             s1 == IF quoted THEN strip(Inner(s0)) ELSE s0
             is_negative == startswith(s1, "(") /\ endswith(s1, ")")
             s2 == IF is_negative THEN strip(Inner(s1)) ELSE s1
             s3 == remove(remove(s2, ","), "$")
             val == float(s3)
         IN IF is_negative THEN Neg(val) ELSE val

\* the same losing the sign of a parenthesized amount
clean_currency_no_sign(value_) ==
    IF isna(value_) THEN Zero
    ELSE LET s0 == strip(str(value_))
             quoted == \/ startswith(s0, "\"") /\ endswith(s0, "\"")
                       \/ startswith(s0, "'") /\ endswith(s0, "'")
             s1 == IF quoted THEN strip(Inner(s0)) ELSE s0
             is_negative == startswith(s1, "(") /\ endswith(s1, ")")
             s2 == IF is_negative THEN strip(Inner(s1)) ELSE s1
             s3 == remove(remove(s2, ","), "$")
             val == float(s3)
         IN IF val = ValueError THEN Zero ELSE val

clean_currency(value_) ==
    IF isna(value_) THEN Zero
    ELSE LET s0 == strip(str(value_))
             quoted == \/ startswith(s0, "\"") /\ endswith(s0, "\"")
                       \/ startswith(s0, "'") /\ endswith(s0, "'")
             s1 == IF quoted THEN strip(Inner(s0)) ELSE s0
             is_negative == startswith(s1, "(") /\ endswith(s1, ")")
             s2 == IF is_negative THEN strip(Inner(s1)) ELSE s1
             s3 == remove(remove(s2, ","), "$")
             val == float(s3)
         IN IF val = ValueError THEN Zero
            ELSE IF is_negative THEN Neg(val) ELSE val

\* the text drawn for a line item's amount
amount_str(amount_) ==
    IF Lt0(amount_) THEN <<"(">> \o Format2(Abs(amount_)) \o <<")">>
    ELSE Format2(amount_)

(***************************************************************************)
(* sanitize_filename                                                       *)
(***************************************************************************)
\* str.isalpha and str.isdigit are Unicode-aware: U+00E9 (e acute) is a
\* letter, U+0663 (Arabic-Indic three) is a digit
AsciiLetters ==
    {"A", "B", "C", "D", "E", "F", "G", "H", "I", "J", "K", "L", "M",
     "N", "O", "P", "Q", "R", "S", "T", "U", "V", "W", "X", "Y", "Z",
     "a", "b", "c", "d", "e", "f", "g", "h", "i", "j", "k", "l", "m",
     "n", "o", "p", "q", "r", "s", "t", "u", "v", "w", "x", "y", "z"}
isalpha(c) == c \in AsciiLetters \cup {"U+00E9"}
isdigit(c) == c \in DigitChars \cup {"U+0663"}

\* the same keeping every character
sanitize_filename_keep_all(text_) == strip(text_)

sanitize_filename(text_) ==
    LET clean_ == SelectSeq(text_, LAMBDA c : isalpha(c) \/ isdigit(c) \/ c \in {" ", "-", "_"})
    IN strip(clean_)

(***************************************************************************)
(* Inputs                                                                  *)
(***************************************************************************)
Strings(chars, n) == UNION {[1..l -> chars] : l \in 0..n}

CurrencyChars == {"1", ".", ",", "$", "(", ")", "\"", "'", " ", "-", "n", "a"}
CurrencyInputs == {NanCell} \cup {StrCell(s) : s \in Strings(CurrencyChars, MaxLen)}

\* amounts with two decimals, on both sides of every thousands separator
DollarSamples == (0..MaxDollars) \cup {999, 1000, 1234, 999999, 1000000, 1234567}
CentSamples == {0, 1, 9, 10, 50, 99}
Amounts == {Fin(sg * (d * 100 + c), 2) : sg \in {-1, 1}, d \in DollarSamples, c \in CentSamples}

NameChars == {"a", "7", "U+00E9", "U+0663", " ", "_", "-", "/", "TAB"}
NameInputs == Strings(NameChars, MaxNameLen)

(***************************************************************************)
(* The parts of the state a specification does not use                     *)
(***************************************************************************)
PoNone == [t |-> "None", n |-> 0]
CurrencyIdle == value = NanCell /\ amount = None /\ result = None /\ ccpc = "idle"
SanitizeIdle == text = <<>> /\ clean = <<>> /\ sfpc = "idle"
RenderIdle ==
    /\ caller = "none" /\ company_name = <<>> /\ po_number = PoNone /\ items_df = <<>>
    /\ index = 0 /\ y_position = 0 /\ page = 0 /\ item_counter = 0
    /\ total_amount = Zero /\ canvas = <<>> /\ rpc = "idle"
UploadIdle ==
    /\ no_po_mode = FALSE /\ uploaded_file = <<>> /\ df_columns = <<>> /\ df = <<>>
    /\ pc = "idle" /\ unique_vendors = <<>> /\ grouped = <<>> /\ loop_i = 0
    /\ zip_file = <<>> /\ count = 0 /\ calls = <<>> /\ ui = <<>>

(***************************************************************************)
(* clean_currency on a cell, and on a formatted amount                     *)
(***************************************************************************)
InitCurrency ==
    /\ result = None
    /\ \/ amount = None /\ value \in CurrencyInputs /\ ccpc = "call"
       \/ amount \in Amounts /\ value = NanCell /\ ccpc = "format"
    /\ SanitizeIdle
    /\ RenderIdle
    /\ UploadIdle

FormatAmount ==
    /\ ccpc = "format"
    /\ value' = StrCell(amount_str(amount))
    /\ ccpc' = "call"
    /\ UNCHANGED <<amount, result, sfvars, rvars, uvars>>

CleanCurrency ==
    /\ ccpc = "call"
    /\ result' = clean_currency(value)
    /\ ccpc' = "done"
    /\ UNCHANGED <<value, amount, sfvars, rvars, uvars>>

NextCurrency == FormatAmount \/ CleanCurrency
SpecCurrency == InitCurrency /\ [][NextCurrency]_vars

(***************************************************************************)
(* sanitize_filename on a str                                              *)
(***************************************************************************)
InitSanitize ==
    /\ text \in NameInputs /\ clean = <<>> /\ sfpc = "call"
    /\ CurrencyIdle
    /\ RenderIdle
    /\ UploadIdle

SanitizeFilename ==
    /\ sfpc = "call"
    /\ clean' = sanitize_filename(text)
    /\ sfpc' = "done"
    /\ UNCHANGED <<text, ccvars, rvars, uvars>>

NextSanitize == SanitizeFilename
SpecSanitize == InitSanitize /\ [][NextSanitize]_vars

(***************************************************************************)
(* Claims about clean_currency                                             *)
(***************************************************************************)
\* The ordered steps of the parser's contract: strip one layer of matching
\* quotes, take a parenthesized remainder as negative, remove ',' and '$',
\* parse, apply the sign, 0.0 when the parse fails.  With trim, surrounding
\* whitespace is removed first and again after each stripping step.
Unquote(s) == IF \/ startswith(s, "\"") /\ endswith(s, "\"")
                 \/ startswith(s, "'") /\ endswith(s, "'")
              THEN Inner(s) ELSE s
Wrapped(s) == startswith(s, "(") /\ endswith(s, ")")
Signed(neg, n) == IF n = ValueError THEN Zero ELSE IF neg THEN Neg(n) ELSE n
Spaces(trim, s) == IF trim THEN strip(s) ELSE s
Steps(c, trim) ==
    IF isna(c) THEN Zero
    ELSE LET q == Spaces(trim, Unquote(Spaces(trim, c.s)))
             p == IF Wrapped(q) THEN Spaces(trim, Inner(q)) ELSE q
         IN Signed(Wrapped(q), float(remove(remove(p, "$"), ",")))
Same(a, b) == a = b

\* C1 as stated: clean_currency returns a number, never raises, and the
\* number is the result of the ordered steps exactly as listed (no trimming
\* of whitespace between them).
C1_StepsAsListed ==
    (ccpc = "done" /\ amount = None) =>
        IsFloat(result) /\ Same(result, Steps(value, FALSE))

\* C1 amended: clean_currency returns a float, never raises, and the float
\* is the result of the ordered steps with surrounding whitespace trimmed
\* first and again after each stripping step.
C1_StepsWithTrim ==
    (ccpc = "done" /\ amount = None) =>
        IsFloat(result) /\ Same(result, Steps(value, TRUE))

\* a padded, parenthesized amount has been parsed as negative
C1_Witness ==
    /\ ccpc = "done" /\ amount = None
    /\ value = StrCell(<<" ", "(", "1", ")">>)
    /\ result = Fin(-1, 0)

\* C2: an amount with two decimals, formatted as the renderer formats a
\* line-item amount and parsed by clean_currency, comes back unchanged.
C2_RoundTrip ==
    (ccpc = "done" /\ amount # None) => PyEq(result, amount)

\* a negative amount with a thousands separator has made the round trip
C2_Witness ==
    /\ ccpc = "done"
    /\ amount = Fin(-123450, 2)
    /\ value = StrCell(<<"(", "1", ",", "2", "3", "4", ".", "5", "0", ")">>)
    /\ result = amount

(***************************************************************************)
(* Claims about sanitize_filename                                          *)
(***************************************************************************)
\* [A-Za-z0-9 _-]
AsciiSafe == AsciiLetters \cup DigitChars \cup {" ", "_", "-"}
Chars(s) == {s[i] : i \in 1..Len(s)}
Trimmed(s) == s = <<>> \/ (~IsSpace(s[1]) /\ ~IsSpace(s[Len(s)]))

\* C3 as stated: every character of the output is one of A-Z, a-z, 0-9,
\* space, underscore or hyphen, and the output has no leading or trailing
\* whitespace.
C3_AsciiOnly ==
    sfpc = "done" => Chars(clean) \subseteq AsciiSafe /\ Trimmed(clean)

\* C3 amended: every character of the output is a letter or a digit in the
\* Unicode sense, a space, an underscore or a hyphen; it is one of
\* [A-Za-z0-9 _-] when the input holds no letter or digit outside ASCII;
\* and the output has no leading or trailing whitespace.
C3_UnicodeAlnum ==
    sfpc = "done" =>
        /\ \A c \in Chars(clean) : c \in AsciiSafe \cup {"U+00E9", "U+0663"}
        /\ Chars(text) \cap {"U+00E9", "U+0663"} = {} => Chars(clean) \subseteq AsciiSafe
        /\ Trimmed(clean)

\* a name with a path separator, padding and a non-ASCII letter is sanitized
C3_Witness ==
    /\ sfpc = "done"
    /\ text = <<" ", "/", "U+00E9", "TAB">>
    /\ clean = <<"U+00E9">>

(***************************************************************************)
(* generate_pdf_bytes                                                      *)
(*                                                                         *)
(* The canvas is the sequence of what was drawn: the operation, the page,  *)
(* the vertical position, the text and, for a row, the amount text.  The   *)
(* Quantity and Item Rate cells of a row are parsed inside their own       *)
(* try/except and drawn at the row's position; they feed neither the       *)
(* label, the amount, the total nor the cursor and are not drawn here.     *)
(***************************************************************************)
PageHeight == 792
BottomMargin == 50
TopMargin == 50
RowStep == 20
MaxRandomItems == 5

Txt_Item == <<"I", "t", "e", "m", " ">>
Txt_INV == <<"I", "N", "V", "-">>
Txt_Dollar == <<"$">>
Widget == <<"W", "i", "d", "g", "e", "t">>

\* two entries of the catalog of twelve
GENERIC_ITEMS == { <<"I", "T", " ", "S", "u", "p", "p", "o", "r", "t">>,
                   <<"L", "e", "g", "a", "l", " ", "S", "e", "r", "v", "i", "c", "e", "s">> }

\* the first and the last day of the previous calendar year, as MM/DD/YYYY
get_random_date_last_year ==
    { <<"0", "1", "/", "0", "1", "/", "2", "0", "2", "5">>,
      <<"1", "2", "/", "3", "1", "/", "2", "0", "2", "5">> }

\* random.randint(10000, 99999): both ends
InvNumbers == {10000, 99999}

\* round(random.uniform(100.00, 5000.00), 2): both ends
RandomAmounts == {Fin(10000, 2), Fin(500000, 2)}

\* 1 to 5 line items, each with a catalog description and a float amount
generate_random_data ==
    LET rows == {[Item |-> StrCell(g), Amount |-> NumCell(a)] :
                     g \in GENERIC_ITEMS, a \in RandomAmounts}
    IN UNION {[1..n -> rows] : n \in 1..MaxRandomItems}

\* a group key: numpy int64 when the Document Number column has no missing
\* cell, float64 when it has
Po(ty, n) == [t |-> ty, n |-> n]
\* "if po_number:" - None and zero are falsy
Truthy(po) == po.t # "None" /\ po.n # 0
\* str(po_number)
PoStr(po) == IF po.t = "float" THEN IntToStr(po.n) \o <<".", "0">> ELSE IntToStr(po.n)

Draw(op, pg, y, label, amt) == [op |-> op, page |-> pg, y |-> y, label |-> label, amt |-> amt]

\* amount = clean_currency(raw_amt) if isinstance(raw_amt, str) else float(raw_amt)
ParseAmount(raw_amt) == IF isinstance_str(raw_amt) THEN clean_currency(raw_amt) ELSE raw_amt.v

\* the label of a row
DisplayName(row, po, counter) ==
    IF ~isna(row.Item)
    THEN IF Truthy(po) THEN Txt_Item \o IntToStr(counter) ELSE str(row.Item)
    ELSE Txt_Item \o IntToStr(counter)

\* a page break check that looks for the page edge instead of the margin
PageBreak_at_edge(y) == y < 0
\* Page Break Check
PageBreak(y) == y < BottomMargin

total_str(total) ==
    IF Lt0(total) THEN <<"(">> \o Format2(Abs(total)) \o <<")">>
    ELSE Txt_Dollar \o Format2(total)

RenderHeader ==
    /\ rpc = "header"
    /\ \E invoice_date \in get_random_date_last_year, rand_inv \in InvNumbers :
          canvas' =
            << Draw("company", 1, PageHeight - 50, company_name, <<>>),
               Draw("INVOICE", 1, PageHeight - 100, <<>>, <<>>),
               Draw("Date: ", 1, PageHeight - 100, invoice_date, <<>>),
               IF Truthy(po_number)
               THEN Draw("PO #: ", 1, PageHeight - 120, PoStr(po_number), <<>>)
               ELSE Draw("Invoice #: ", 1, PageHeight - 120, Txt_INV \o IntToStr(rand_inv), <<>>),
               Draw("table header", 1, PageHeight - 170, <<>>, <<>>),
               Draw("line", 1, PageHeight - 170 - 5, <<>>, <<>>) >>
    /\ y_position' = PageHeight - 170 - 25
    /\ page' = 1
    /\ total_amount' = Zero
    /\ item_counter' = 1
    /\ index' = 1
    /\ rpc' = "rows"
    /\ UNCHANGED <<rargs, ccvars, sfvars, uvars>>

\* one pass of "for index, row in items_df.iterrows()"
RenderRow ==
    /\ rpc = "rows"
    /\ index <= Len(items_df)
    /\ LET row == items_df[index]      \* every items_df has an Item column
           amount_ == ParseAmount(row.Amount)
           display_name == DisplayName(row, po_number, item_counter)
           y == IF PageBreak(y_position) THEN PageHeight - TopMargin ELSE y_position
           pg == IF PageBreak(y_position) THEN page + 1 ELSE page
       IN /\ canvas' = Append(canvas, Draw("row", pg, y, display_name, amount_str(amount_)))
          /\ total_amount' = Add(total_amount, amount_)
          /\ y_position' = y - RowStep
          /\ page' = pg
    /\ item_counter' = item_counter + 1
    /\ index' = index + 1
    /\ UNCHANGED <<rpc, rargs, ccvars, sfvars, uvars>>

RenderTotal ==
    /\ rpc = "rows"
    /\ index > Len(items_df)
    /\ canvas' = canvas \o << Draw("line", page, y_position + 10, <<>>, <<>>),
                             Draw("Total:", page, y_position - 20, total_str(total_amount), <<>>) >>
    /\ y_position' = y_position - 20
    /\ rpc' = "done"
    /\ UNCHANGED <<index, page, item_counter, total_amount, rargs, ccvars, sfvars, uvars>>

(***************************************************************************)
(* The calls of generate_pdf_bytes the two branches make                   *)
(***************************************************************************)
DocNumbers == {0, 1, 2}
PoNumbers == {Po(ty, n) : ty \in {"int", "float"}, n \in DocNumbers}
NameAB == <<"A", "&", "B">>
NameBang == <<"!", "!">>
UnknownCompany == <<"U", "n", "k", "n", "o", "w", "n", " ", "C", "o", "m", "p", "a", "n", "y">>

\* Item cells of the details of a group: all filled, or (details = group)
\* all missing or blank
FilledItems == {StrCell(Widget)}
BlankItems == {NanCell, StrCell(<<" ">>)}
\* Amount cells: a text column or a numeric column, either with missing cells
TextAmounts == { StrCell(<<"(", "1", ",", "0", "0", "0", ".", "5", "0", ")">>),
                 StrCell(<<"2", ".", "2", "5">>),
                 StrCell(<<"x">>),
                 NanCell }
NumericAmounts == {NumCell(Fin(250, 2)), NumCell(Fin(-4, 0)), NanCell}
Rows(I, A) == {[Item |-> i, Amount |-> a] : i \in I, a \in A}
RowKinds == {Rows(I, A) : I \in {FilledItems, BlankItems}, A \in {TextAmounts, NumericAmounts}}
ShortDetails == UNION {[1..n -> R] : n \in 1..MaxItems, R \in RowKinds}
\* many equal rows, to fill pages
LongRows == {[Item |-> StrCell(Widget), Amount |-> a] :
                 a \in {StrCell(<<"2", ".", "2", "5">>), NanCell}}
LongDetails == {[i \in 1..n |-> r] : n \in (MaxItems + 1)..MaxLines, r \in LongRows}

InitRender ==
    /\ CurrencyIdle /\ SanitizeIdle /\ UploadIdle
    /\ \/ /\ caller = "po"
          /\ po_number \in PoNumbers
          /\ company_name \in {NameAB, UnknownCompany}
          /\ items_df \in ShortDetails
       \/ /\ caller = "po"
          /\ po_number = Po("int", 1)
          /\ company_name = NameAB
          /\ items_df \in LongDetails
       \/ /\ caller = "vendor"
          /\ po_number = PoNone
          /\ company_name \in {NameAB, NameBang}
          /\ items_df \in generate_random_data
    /\ index = 0 /\ y_position = 0 /\ page = 0 /\ item_counter = 0
    /\ total_amount = Zero /\ canvas = <<>> /\ rpc = "header"

NextRender == RenderHeader \/ RenderRow \/ RenderTotal
SpecRender == InitRender /\ [][NextRender]_vars

(***************************************************************************)
(* Claims about generate_pdf_bytes                                         *)
(***************************************************************************)
RowsDrawn == SelectSeq(canvas, LAMBDA d : d.op = "row")
HeaderNumber == canvas[4]
Last(q) == q[Len(q)]

\* C6: a document rendered for a PO-mode group shows "PO #: <number>" and
\* labels its k-th row "Item k", whatever the document number; a vendor-only
\* document shows "Invoice #: INV-<n>" and each item's own description.
C6_PoLabels ==
    rpc \in {"rows", "done"} =>
        /\ caller = "po" =>
              /\ HeaderNumber = Draw("PO #: ", 1, PageHeight - 120, PoStr(po_number), <<>>)
              /\ \A k \in 1..Len(RowsDrawn) : RowsDrawn[k].label = Txt_Item \o IntToStr(k)
        /\ caller = "vendor" =>
              /\ HeaderNumber.op = "Invoice #: "
              /\ \A k \in 1..Len(RowsDrawn) : RowsDrawn[k].label = items_df[k].Item.s

\* The signed amount of a line item as the contract gives it: 0.0 for a
\* missing cell, the lenient parse for a text cell, the number itself else.
ContractAmount(c) ==
    IF isna(c) THEN Zero ELSE IF isinstance_str(c) THEN clean_currency(c) ELSE c.v
RECURSIVE ContractTotal(_)
ContractTotal(rows) ==
    IF rows = <<>> THEN Zero
    ELSE Add(ContractTotal(SubSeq(rows, 1, Len(rows) - 1)), ContractAmount(Last(rows).Amount))

\* C7: the total printed is the sum of the items' signed amounts, a missing
\* or unparseable amount counting as 0.0; it is finite, printed "(N,NNN.NN)"
\* when negative and "$N,NNN.NN" otherwise.
C7_Total ==
    rpc = "done" =>
        LET t == ContractTotal(items_df)
        IN /\ IsFinite(total_amount)
           /\ total_amount = t
           /\ Last(canvas).op = "Total:"
           /\ Last(canvas).label = IF Lt0(t) THEN <<"(">> \o Format2(Abs(t)) \o <<")">>
                                   ELSE Txt_Dollar \o Format2(t)

\* Rows stay between the margins, and a row that would start below the
\* bottom margin starts a new page at the top instead.
RowsPaginated ==
    /\ \A k \in 1..Len(RowsDrawn) :
          RowsDrawn[k].y >= BottomMargin /\ RowsDrawn[k].y <= PageHeight - TopMargin
    /\ \A k \in 1..(Len(RowsDrawn) - 1) :
          IF RowsDrawn[k].y - RowStep < BottomMargin
          THEN RowsDrawn[k + 1].page = RowsDrawn[k].page + 1
               /\ RowsDrawn[k + 1].y = PageHeight - TopMargin
          ELSE RowsDrawn[k + 1].page = RowsDrawn[k].page
               /\ RowsDrawn[k + 1].y = RowsDrawn[k].y - RowStep
ClosingLine == canvas[Len(canvas) - 1]

\* C10 as stated: rows are paginated between the margins, and the rule
\* line and the total after the last row are drawn at or above the bottom
\* margin.
C10_TotalAboveMargin ==
    /\ rpc \in {"rows", "done"} => RowsPaginated
    /\ rpc = "done" => ClosingLine.y >= BottomMargin /\ Last(canvas).y >= BottomMargin

\* C10 amended: rows are paginated between the margins; the rule line and
\* the total after the last row are drawn on the last row's page above the
\* page edge (y > 0), possibly below the bottom margin.
C10_TotalOnPage ==
    /\ rpc \in {"rows", "done"} => RowsPaginated
    /\ rpc = "done" =>
          /\ ClosingLine.op = "line" /\ ClosingLine.y > 0 /\ ClosingLine.y <= PageHeight
          /\ Last(canvas).op = "Total:" /\ Last(canvas).y > 0 /\ Last(canvas).y <= PageHeight
          /\ ClosingLine.page = page /\ Last(canvas).page = page

\* a document of two pages is finished, its total in the bottom margin
C10_Witness ==
    /\ rpc = "done"
    /\ page = 2
    /\ \E k \in 1..Len(RowsDrawn) : RowsDrawn[k].page = 2 /\ RowsDrawn[k].y = PageHeight - TopMargin
    /\ Last(canvas).y < BottomMargin

(***************************************************************************)
(* The script body: read the upload, then the vendor-only or the PO branch *)
(*                                                                         *)
(* A header is the sequence of its words and of the whitespace characters  *)
(* around and between them.  A row carries its Name, Document Number and   *)
(* Item cells; the Amount, Quantity and Item Rate cells are read only by   *)
(* generate_pdf_bytes (SpecRender).  No step of either branch raises on    *)
(* the uploads drawn here, so the outer except clause has no action.       *)
(***************************************************************************)
Col_Name == <<"Name">>
Col_DocumentNumber == <<"Document", " ", "Number">>
Col_Item == <<"Item">>
required_columns ==
    << Col_Name, Col_DocumentNumber, <<"Amount">>, Col_Item, <<"Quantity">>, <<"Item", " ", "Rate">> >>

Txt_Invoice == <<"I", "n", "v", "o", "i", "c", "e">>
Txt_pdf == <<".", "p", "d", "f">>

AbsentCell == [t |-> "absent", s |-> <<>>, v |-> Zero]
DocCell(n) == [t |-> "num", n |-> n]
DocNan == [t |-> "nan", n |-> 0]
DocAbsent == [t |-> "absent", n |-> 0]

In(cols, c) == \E k \in 1..Len(cols) : cols[k] = c

\* df.columns kept as read, padding included
StripColumns_not(headers) == headers
\* df.columns = df.columns.str.strip()
StripColumns(headers) == [k \in 1..Len(headers) |-> strip(headers[k])]

\* [col for col in required_columns if col not in df.columns]
missing_cols(cols) == SelectSeq(required_columns, LAMBDA c : ~In(cols, c))

RECURSIVE unique(_)
\* Series.unique(): the distinct values in order of first appearance
unique(q) ==
    IF q = <<>> THEN <<>>
    ELSE LET front == unique(SubSeq(q, 1, Len(q) - 1))
         IN IF In(front, q[Len(q)]) THEN front ELSE Append(front, q[Len(q)])

\* df['Name'].dropna().unique()
UniqueVendors(rows) ==
    LET named == SelectSeq(rows, LAMBDA r : ~isna(r.Name))
    IN unique([k \in 1..Len(named) |-> named[k].Name.s])

RECURSIVE SortAsc(_)
SortAsc(S) == IF S = {} THEN <<>>
              ELSE LET least == CHOOSE x \in S : \A y \in S : x <= y
                   IN <<least>> \o SortAsc(S \ {least})

KeyType(rows) == IF \E k \in 1..Len(rows) : rows[k].Doc.t = "nan" THEN "float" ELSE "int"
Groups(rows, keys) ==
    [k \in 1..Len(keys) |->
        [key |-> Po(KeyType(rows), keys[k]),
         group |-> SelectSeq(rows, LAMBDA r : r.Doc = DocCell(keys[k]))]]
DocsOf(rows) ==
    LET with == SelectSeq(rows, LAMBDA r : r.Doc.t = "num")
    IN [k \in 1..Len(with) |-> with[k].Doc.n]

\* a groupby(..., sort=False): groups in order of first appearance
groupby_unsorted(rows) == Groups(rows, unique(DocsOf(rows)))
\* df.groupby('Document Number'): sort=True and dropna=True are the defaults,
\* so the groups come in ascending key order, rows with a missing key are in
\* no group, and each group keeps its rows in their original order
groupby(rows) ==
    Groups(rows, SortAsc({DocsOf(rows)[k] : k \in 1..Len(DocsOf(rows))}))

\* the Name of the group's last row that has one
CompanyName_last(group) ==
    LET valid_names == SelectSeq(group, LAMBDA r : ~isna(r.Name))
    IN IF valid_names # <<>> THEN valid_names[Len(valid_names)].Name.s ELSE UnknownCompany
\* valid_names.iloc[0] if not valid_names.empty else "Unknown Company"
CompanyName(group) ==
    LET valid_names == SelectSeq(group, LAMBDA r : ~isna(r.Name))
    IN IF valid_names # <<>> THEN valid_names[1].Name.s ELSE UnknownCompany

\* Filter Header Rows, falling back to the whole group
Details(group) ==
    LET details == SelectSeq(group, LAMBDA r : ~isna(r.Item) /\ strip(str(r.Item)) # <<>>)
    IN IF details = <<>> THEN group ELSE details

\* two of the dataframes generate_random_data can return
RandomDraws ==
    LET r == [Item |-> StrCell(<<"I", "T", " ", "S", "u", "p", "p", "o", "r", "t">>),
              Amount |-> NumCell(Fin(10000, 2))]
    IN {[k \in 1..n |-> r] : n \in {1, MaxRandomItems}}

Msg(kind, cols, n) == [kind |-> kind, cols |-> cols, n |-> n]
Call(name, details, po) == [company_name |-> name, details |-> details, po_number |-> po]
Entry(filename, pdf) == [filename |-> filename, pdf |-> pdf]

ReadCsv ==
    /\ pc = "upload"
    /\ df' = uploaded_file.rows
    /\ df_columns' = StripColumns(uploaded_file.headers)
    /\ pc' = "read"
    /\ UNCHANGED <<no_po_mode, uploaded_file, unique_vendors, grouped, loop_i,
                   zip_file, count, calls, ui, ccvars, sfvars, rvars>>

VendorMissingName ==
    /\ pc = "read" /\ no_po_mode
    /\ ~In(df_columns, Col_Name)
    /\ ui' = Append(ui, Msg("error", <<Col_Name>>, 0))
    /\ pc' = "done"
    /\ UNCHANGED <<no_po_mode, uploaded_file, df_columns, df, unique_vendors, grouped,
                   loop_i, zip_file, count, calls, ccvars, sfvars, rvars>>

VendorStart ==
    /\ pc = "read" /\ no_po_mode
    /\ In(df_columns, Col_Name)
    /\ unique_vendors' = UniqueVendors(df)
    /\ zip_file' = <<>>
    /\ count' = 0
    /\ loop_i' = 0
    /\ ui' = Append(ui, Msg("progress", <<>>, 0))
    /\ pc' = "loop"
    /\ UNCHANGED <<no_po_mode, uploaded_file, df_columns, df, grouped, calls,
                   ccvars, sfvars, rvars>>

VendorStep ==
    /\ pc = "loop" /\ no_po_mode
    /\ loop_i < Len(unique_vendors)
    /\ LET vendor_name == unique_vendors[loop_i + 1]
           clean_name == sanitize_filename(vendor_name)
           filename == clean_name \o <<"_">> \o Txt_Invoice \o Txt_pdf
       IN \E random_items_df \in RandomDraws :
             /\ calls' = Append(calls, Call(vendor_name, random_items_df, PoNone))
             /\ zip_file' = Append(zip_file, Entry(filename, Len(calls) + 1))
    /\ count' = count + 1
    /\ ui' = Append(ui, Msg("progress", <<>>, loop_i + 1))
    /\ loop_i' = loop_i + 1
    /\ UNCHANGED <<no_po_mode, uploaded_file, df_columns, df, pc, unique_vendors, grouped,
                   ccvars, sfvars, rvars>>

VendorFinish ==
    /\ pc = "loop" /\ no_po_mode
    /\ loop_i = Len(unique_vendors)
    /\ ui' = ui \o << Msg("success", <<>>, count), Msg("download", <<>>, Len(zip_file)) >>
    /\ pc' = "done"
    /\ UNCHANGED <<no_po_mode, uploaded_file, df_columns, df, unique_vendors, grouped,
                   loop_i, zip_file, count, calls, ccvars, sfvars, rvars>>

PoMissingColumns ==
    /\ pc = "read" /\ ~no_po_mode
    /\ missing_cols(df_columns) # <<>>
    /\ ui' = Append(ui, Msg("error", missing_cols(df_columns), 0))
    /\ pc' = "done"
    /\ UNCHANGED <<no_po_mode, uploaded_file, df_columns, df, unique_vendors, grouped,
                   loop_i, zip_file, count, calls, ccvars, sfvars, rvars>>

PoStart ==
    /\ pc = "read" /\ ~no_po_mode
    /\ missing_cols(df_columns) = <<>>
    /\ grouped' = groupby(df)
    /\ zip_file' = <<>>
    /\ count' = 0
    /\ loop_i' = 0
    /\ ui' = Append(ui, Msg("progress", <<>>, 0))
    /\ pc' = "loop"
    /\ UNCHANGED <<no_po_mode, uploaded_file, df_columns, df, unique_vendors, calls,
                   ccvars, sfvars, rvars>>

PoStep ==
    /\ pc = "loop" /\ ~no_po_mode
    /\ loop_i < Len(grouped)
    /\ LET po == grouped[loop_i + 1].key
           group == grouped[loop_i + 1].group
           name == CompanyName(group)
           clean_name == sanitize_filename(name)
           clean_po == sanitize_filename(PoStr(po))
           filename == (IF clean_name = <<>> THEN Txt_Invoice ELSE clean_name)
                       \o <<"_">> \o clean_po \o Txt_pdf
       IN /\ calls' = Append(calls, Call(name, Details(group), po))
          /\ zip_file' = Append(zip_file, Entry(filename, Len(calls) + 1))
    /\ count' = count + 1
    /\ ui' = Append(ui, Msg("progress", <<>>, loop_i + 1))
    /\ loop_i' = loop_i + 1
    /\ UNCHANGED <<no_po_mode, uploaded_file, df_columns, df, pc, unique_vendors, grouped,
                   ccvars, sfvars, rvars>>

PoFinish ==
    /\ pc = "loop" /\ ~no_po_mode
    /\ loop_i = Len(grouped)
    /\ ui' = ui \o << Msg("success", <<>>, count), Msg("download", <<>>, Len(zip_file)) >>
    /\ pc' = "done"
    /\ UNCHANGED <<no_po_mode, uploaded_file, df_columns, df, unique_vendors, grouped,
                   loop_i, zip_file, count, calls, ccvars, sfvars, rvars>>

(***************************************************************************)
(* Uploads                                                                 *)
(***************************************************************************)
NameCells == {StrCell(NameAB), StrCell(NameBang), NanCell}
DocCells == {DocCell(n) : n \in DocNumbers} \cup {DocNan}
ItemCells == {StrCell(Widget), StrCell(<<" ">>), NanCell}

\* the required columns numbered in present, every header padded or none
HeadersOf(present, padded) ==
    LET cols == SelectSeq(required_columns,
                          LAMBDA c : c \in {required_columns[j] : j \in present})
    IN [k \in 1..Len(cols) |-> IF padded THEN <<" ">> \o cols[k] \o <<" ">> ELSE cols[k]]
RowsOf(present) ==
    {[Name |-> n, Doc |-> d, Item |-> it] :
        n \in (IF 1 \in present THEN NameCells ELSE {AbsentCell}),
        d \in (IF 2 \in present THEN DocCells ELSE {DocAbsent}),
        it \in (IF 4 \in present THEN ItemCells ELSE {AbsentCell})}
UploadFrom(presents, maxrows) ==
    /\ CurrencyIdle /\ SanitizeIdle /\ RenderIdle
    /\ no_po_mode \in BOOLEAN
    /\ \E present \in presents, padded \in BOOLEAN, n \in 0..maxrows :
          \E rows \in [1..n -> RowsOf(present)] :
             uploaded_file = [headers |-> HeadersOf(present, padded), rows |-> rows]
    /\ df_columns = <<>> /\ df = <<>> /\ pc = "upload"
    /\ unique_vendors = <<>> /\ grouped = <<>> /\ loop_i = 0
    /\ zip_file = <<>> /\ count = 0 /\ calls = <<>> /\ ui = <<>>

\* uploads with any of the required columns, of few rows
InitUpload == UploadFrom(SUBSET (1..Len(required_columns)), MaxHeaderRows)
\* uploads with every required column, or every one but Name, of more rows
InitBatch == UploadFrom({1..Len(required_columns), 2..Len(required_columns)}, MaxRows)

NextUpload ==
    \/ ReadCsv
    \/ VendorMissingName \/ VendorStart \/ VendorStep \/ VendorFinish
    \/ PoMissingColumns \/ PoStart \/ PoStep \/ PoFinish
SpecUpload == InitUpload /\ [][NextUpload]_vars
SpecBatch == InitBatch /\ [][NextUpload]_vars

(***************************************************************************)
(* Claims about the two branches                                           *)
(***************************************************************************)
\* the required columns that no trimmed header of the upload names
Absent(c) == \A k \in 1..Len(uploaded_file.headers) : strip(uploaded_file.headers[k]) # c
Missing == SelectSeq(IF no_po_mode THEN <<Col_Name>> ELSE required_columns, Absent)
\* a PO-mode run of an upload that has every required column
PoRun == ~no_po_mode /\ pc \in {"loop", "done"} /\ Missing = <<>>
\* the uploaded rows that carry document number n, by position
RowsWith(n) == {j \in 1..Len(uploaded_file.rows) : uploaded_file.rows[j].Doc = DocCell(n)}
FirstRow(n) == CHOOSE j \in RowsWith(n) : \A l \in RowsWith(n) : j <= l
DocsUploaded == {n \in DocNumbers : RowsWith(n) # {}}
\* the k-th archive entry holds the k-th document rendered
WrittenAsRendered ==
    /\ Len(zip_file) = Len(calls)
    /\ \A k \in 1..Len(zip_file) : zip_file[k].pdf = k

\* C4 as stated: in PO mode the documents are rendered and written in the
\* order in which their document numbers first appear in the upload.
C4_FirstAppearanceOrder ==
    PoRun =>
        /\ WrittenAsRendered
        /\ \A a, b \in 1..Len(calls) :
              a < b => FirstRow(calls[a].po_number.n) < FirstRow(calls[b].po_number.n)

\* C4 amended: in PO mode the documents are rendered and written in
\* ascending order of document number, one per document number of the
\* upload, whatever the order of the rows.
C4_AscendingOrder ==
    PoRun =>
        /\ WrittenAsRendered
        /\ \A a, b \in 1..Len(calls) :
              a < b => calls[a].po_number.n < calls[b].po_number.n
        /\ {calls[k].po_number.n : k \in 1..Len(calls)} \subseteq DocsUploaded
        /\ pc = "done" => {calls[k].po_number.n : k \in 1..Len(calls)} = DocsUploaded

\* rows of document numbers 2 then 1 have been rendered as 1 then 2
C4_Witness ==
    /\ ~no_po_mode /\ pc = "done"
    /\ Len(uploaded_file.rows) = 2
    /\ uploaded_file.rows[1].Doc = DocCell(2)
    /\ uploaded_file.rows[2].Doc = DocCell(1)
    /\ Len(zip_file) = 2
    /\ calls[1].po_number.n = 1 /\ calls[2].po_number.n = 2

\* the first Name that is not missing among the uploaded rows of document
\* number n, in upload order
NamedRows(n) == {j \in RowsWith(n) : ~isna(uploaded_file.rows[j].Name)}
FirstName(n) ==
    IF NamedRows(n) = {} THEN UnknownCompany
    ELSE uploaded_file.rows[CHOOSE j \in NamedRows(n) : \A l \in NamedRows(n) : j <= l].Name.s
GroupOf(n) == {k \in 1..Len(grouped) : grouped[k].key.n = n}
Within(q, r) == \E k \in 1..Len(q) : q[k] = r
GroupsAndNames ==
    /\ Len(grouped) = Cardinality(DocsUploaded)
    /\ \A n \in DocsUploaded : Cardinality(GroupOf(n)) = 1
    /\ \A k \in 1..Len(calls) : calls[k].company_name = FirstName(calls[k].po_number.n)
    /\ pc = "done" =>
          /\ count = Cardinality(DocsUploaded)
          /\ Len(calls) = count
          /\ ui[Len(ui) - 1] = Msg("success", <<>>, Cardinality(DocsUploaded))

\* C5 as stated: N distinct document numbers give exactly N groups, N
\* documents and a reported count of N; every uploaded row is in the group
\* of its document number; each display name is the group's first Name that
\* is not missing, "Unknown Company" when there is none.
C5_EveryRowGrouped ==
    PoRun =>
        /\ GroupsAndNames
        /\ \A j \in 1..Len(uploaded_file.rows) :
              \E k \in 1..Len(grouped) : Within(grouped[k].group, uploaded_file.rows[j])

\* C5 amended: the same, for every uploaded row whose Document Number is
\* not missing; a row whose Document Number is missing is in no group.
C5_NumberedRowsGrouped ==
    PoRun =>
        /\ GroupsAndNames
        /\ \A j \in 1..Len(uploaded_file.rows) :
              LET r == uploaded_file.rows[j]
              IN IF r.Doc.t = "num"
                 THEN \A k \in 1..Len(grouped) :
                         Within(grouped[k].group, r) <=> grouped[k].key.n = r.Doc.n
                 ELSE \A k \in 1..Len(grouped) : ~Within(grouped[k].group, r)

\* a group of two rows, the first without a Name, is named after the second
C5_Witness ==
    /\ ~no_po_mode /\ pc = "done"
    /\ Len(uploaded_file.rows) = 2
    /\ uploaded_file.rows[1].Doc = DocCell(1) /\ isna(uploaded_file.rows[1].Name)
    /\ uploaded_file.rows[2].Doc = DocCell(1) /\ uploaded_file.rows[2].Name = StrCell(NameBang)
    /\ count = 1
    /\ calls[1].company_name = NameBang

\* C8: the <name> component of every filename written, in either mode, is
\* the sanitized display name, or "Invoice" when that is empty.
C8_NameNeverEmpty ==
    pc \in {"loop", "done"} =>
        \A k \in 1..Len(zip_file) :
            LET sanitized == sanitize_filename(calls[k].company_name)
                name == IF sanitized = <<>> THEN Txt_Invoice ELSE sanitized
                rest == IF no_po_mode THEN Txt_Invoice
                        ELSE sanitize_filename(PoStr(calls[k].po_number))
            IN zip_file[k].filename = name \o <<"_">> \o rest \o Txt_pdf

NothingProduced ==
    /\ calls = <<>> /\ zip_file = <<>> /\ count = 0
    /\ \A k \in 1..Len(ui) : ui[k].kind \notin {"success", "download", "progress"}

\* C9: when a required column is absent from the trimmed headers (any of
\* the six in PO mode, Name in vendor-only mode), the run ends with one
\* error listing exactly the missing columns and nothing else is produced;
\* otherwise no error is reported.
C9_MissingColumns ==
    pc \in {"loop", "done"} =>
        IF Missing # <<>>
        THEN pc = "done" /\ ui = <<Msg("error", Missing, 0)>> /\ NothingProduced
        ELSE \A k \in 1..Len(ui) : ui[k].kind # "error"

\* a PO-mode upload of one row, with padded headers and without Amount, has
\* ended with the error
C9_Witness ==
    /\ ~no_po_mode /\ pc = "done"
    /\ Len(uploaded_file.headers) = 5
    /\ uploaded_file.headers[1] = <<" ", "Name", " ">>
    /\ Len(uploaded_file.rows) = 1
    /\ ui = <<Msg("error", << <<"Amount">> >>, 0)>>

====
